---- MODULE Spec2Model ----
(***************************************************************************)
(* Model of loom-x: the Loom-side client (class Loom of                   *)
(* src/src/chains/Ethereum.ts, lines 406-816), the Ethereum-side client    *)
(* (class Ethereum, lines 46-371) and the on-chain state the two clients   *)
(* read and write through the transfer gateways.                           *)
(*                                                                         *)
(* The model follows one user ("ownerA") who owns one Loom client and one  *)
(* Ethereum client.  A second user ("ownerB") exists only through the      *)
(* withdrawal-signed events that the Loom gateway broadcasts for him on    *)
(* the same subscription.                                                  *)
(***************************************************************************)
EXTENDS Integers, Sequences, FiniteSets, TLC

(***************************************************************************)
(* Program constants and bounds                                            *)
(***************************************************************************)
\* setTimeout(..., 120000) in Loom.listenToTokenWithdrawal
TIMEOUT_MS == 120000
\* granularity with which the model lets wall-clock time pass
TickMs == 60000
\* the withdrawal nonce of the Ethereum gateway is capped at MaxNonce
MaxNonce == 1
\* amounts that may be withdrawn are 1..MaxAmount
MaxAmount == 1
\* number of withdrawal-signed events that may be in flight at once
MaxInflight == 2
\* number of withdrawals that may be submitted to the Ethereum gateway
MaxEthTx == 2
\* client processes started one after the other
MaxProcesses == 2
\* "after 10 blocks of confirmations" the attestor credits a deposit on Loom
CONFIRMATIONS == 10
\* blocks mined on Ethereum from the block of a deposit on
MaxBlocks == 11
\* logs of the Ethereum gateway
MaxLogs == 2
\* the highest block number on Ethereum
MaxBlockNo == 2

\* constants.ts ZERO_ADDRESS: the native asset sentinel
ZERO_ADDRESS == "0x0000000000000000000000000000000000000000"
ERC20_ADDRESS == "0x00000000000000000000000000000000000000E2"
\* loomx.ethereum.getTransferGateway().address: the Ethereum gateway contract
ETH_GATEWAY_ADDRESS == "0x00000000000000000000000000000000000000A7"
\* another ERC20 contract
OTHER_ERC20_ADDRESS == "0x00000000000000000000000000000000000000E3"
Me == "ownerA"
Other == "ownerB"
Owners == {Me, Other}
Assets == {ZERO_ADDRESS, ERC20_ADDRESS}
TokenKinds == {"ETH", "ERC20"}
WaitIds == {"w1", "w2"}
\* every caller of getTransferGatewayAsync; a gateway instance is named
\* after the call that created it
Callers == WaitIds \cup {"withdraw", "recovery"}

NoGateway == "undefined"
\* `null`: the owner has no withdrawal receipt
NoReceipt == [tokenKind |-> "none", tokenContract |-> "none", tokenAmount |-> 0,
              withdrawalNonce |-> 0, oracleSignature |-> <<>>]
TimeoutError == "Timeout while waiting for withdrawal to be signed"

(***************************************************************************)
(* Address (src/unnamed/part_001, class Address extends loom-js Address)   *)
(***************************************************************************)
createEthereumAddress(local) == [chainId |-> "eth", local |-> local]

AddressEquals(a, b) == a.chainId = b.chainId /\ a.local = b.local

(***************************************************************************)
(* bytesToHexAddr (loom-js crypto-utils): "0x" followed by two upper-case  *)
(* hexadecimal digits per byte.  Text is a sequence of characters.         *)
(***************************************************************************)
HexChars == <<"0", "1", "2", "3", "4", "5", "6", "7",
              "8", "9", "A", "B", "C", "D", "E", "F">>

RECURSIVE bytesToHex(_)
bytesToHex(bytes) ==
    IF bytes = <<>> THEN <<>>
    ELSE << HexChars[(Head(bytes) \div 16) + 1], HexChars[(Head(bytes) % 16) + 1] >>
         \o bytesToHex(Tail(bytes))

bytesToHexAddr(bytes) == <<"0", "x">> \o bytesToHex(bytes)

(***************************************************************************)
(* The attestor's signature over a withdrawal, as bytes.  It is determined *)
(* by the owner, the withdrawal nonce, the asset and the amount.           *)
(***************************************************************************)
OwnerByte(o) == IF o = Me THEN 171 ELSE 205
AssetByte(a) == IF a = ZERO_ADDRESS THEN 0 ELSE 226

OracleSig(owner, nonce, asset, amount) ==
    << OwnerByte(owner), nonce % 256, AssetByte(asset), amount % 256 >>

NoSig == <<>>

AssetOfKind(kind) == IF kind = "ETH" THEN ZERO_ADDRESS ELSE ERC20_ADDRESS

VARIABLES
    \* ---- on-chain state of ownerA ----
    receipt,        \* Loom gateway: ownerA's withdrawal receipt, or NoReceipt
    ethNonce,       \* Ethereum gateway: nonces(ownerA)
    lastEthTx,      \* the last withdrawal submitted to the Ethereum gateway, and
                    \* (seq) how many have been submitted
    \* ---- transport ----
    inflight,       \* withdrawal-signed events emitted and not yet delivered
    \* ---- Loom client ----
    mGateway,       \* Loom.mGateway: the cached gateway instance
    creating,       \* callers whose TransferGateway.createAsync is in flight
    listeners,      \* per gateway instance: the waits whose listener is registered
    \* ---- listenToTokenWithdrawal calls ----
    wState,         \* "idle" | "creating" | "failed" | "listening"
    wArgs,          \* [asset, owner] the call was made with
    wGateway,       \* the gateway instance the call obtained
    timer,          \* [state: "unset" | "armed" | "fired" | "cleared", left: ms]
    promise,        \* [state: "pending" | "resolved" | "rejected", value]
    observed,       \* the outcomes the caller has observed, in order
    \* ---- Loom.withdrawETHAsync / withdrawERC20Async call ----
    wd,             \* [state: "idle" | "creating" | "handle" | "failed", kind, amount]
    \* ---- recovery (README, "Handling Pending Withdrawal") ----
    rec,            \* [state: "idle" | "nonce" | "creating" | "result" | "threw" |
                    \*  "finalized" | "reverted", kind, nonce, result]
    \* ---- history (records what the code did) ----
    resolvedBy,     \* the event whose listener call resolved the promise
    removals,       \* how many times the wait's listener was removed
    elapsed,        \* ms passed since the wait's timer was armed, while pending
    recHist,        \* the previous completed call of getPending*WithdrawalReceipt
    \* ---- connection and process ----
    dead,           \* gateway instances bound to a Loom client whose connection ended
    process,        \* the number of the process that runs the clients
    \* ---- the withdraw script of the README (README.md:99-129) ----
    flow,           \* [kind, amount: the script's variables; signed; outcome]
    \* ---- the Ethereum client ----
    deposit,        \* the deposit of the README script (README.md:72-95): [state:
                    \* "idle" | "sent" | "waiting" | "confirmed" | "reverted",
                    \* kind, amount, blocks: confirmations of its transaction,
                    \* status of the transaction, credited: the attestor has
                    \* credited the amount on Loom, approved: the gateway's
                    \* ERC20 allowance]
    ledger,         \* Ethereum: [logs: the logs of the gateway contract, head:
                    \* the number of the latest block]
    logQuery,       \* the get*LogsAsync call: [state: "idle" | "done", name,
                    \* asset, fromBlock, toBlock: the arguments, range: the
                    \* range queried, returned: the node's answer, result]
    \* ---- networks and client identity ----
    currentNetwork, \* [eth, loom]: EthereumNetwork.currentNetwork and
                    \* LoomNetwork.currentNetwork
    metaMask,       \* metaMask.selectedAddress
    ethereum,       \* the Ethereum client: [init: "none" | "privateKey" |
                    \* "metaMask", key, mAddress, mProvider: the network of
                    \* its provider, built: address and network at construction]
    loom            \* the Loom client: [init: "none" | "privateKey" |
                    \* "ethereum", key, mAddress, mClient: the network of its
                    \* endpoint, built: address and network at construction]

chainVars == << receipt, ethNonce, lastEthTx >>
clientVars == << mGateway, creating, listeners >>
waitVars == << wState, wArgs, wGateway, timer, promise, observed,
               resolvedBy, removals, elapsed >>
recVars == << rec, recHist >>
\* the state of the Ethereum client and of what it reads and writes
idVars == << currentNetwork, metaMask, ethereum, loom >>
ethVars == << deposit, ledger, logQuery, idVars >>
\* what no operation of a Loom client changes
hostVars == << process, ethVars >>
\* the state of the Loom client, its calls and the withdrawal
loomVars == << receipt, ethNonce, lastEthTx, inflight, mGateway, creating, listeners,
               wState, wArgs, wGateway, timer, promise, observed, wd, rec,
               resolvedBy, removals, elapsed, recHist, dead, process, flow >>
vars == << loomVars, ethVars >>

NoAddress == [chainId |-> "none", local |-> "none"]
NoEvent == [tokenContract |-> NoAddress, tokenOwner |-> NoAddress, sig |-> <<>>]
NoArgs == [asset |-> NoAddress, owner |-> NoAddress]
NoTx == [asset |-> "none", amount |-> 0, signature |-> <<>>, status |-> "none", seq |-> 0]
IdleWithdraw == [state |-> "idle", kind |-> "none", amount |-> 0]
NoPrevious == [process |-> 0, timedOut |-> FALSE, result |-> NoReceipt]
NoEntry == [kind |-> "none", nonce |-> 0, receipt |-> NoReceipt, ethNonce |-> 0,
            result |-> NoReceipt, finalized |-> FALSE, again |-> FALSE,
            process |-> 0, timedOut |-> FALSE, previous |-> NoPrevious]
IdleRecovery == [state |-> "idle", kind |-> "none", nonce |-> 0, result |-> NoReceipt]
\* no deposit made
NoDeposit == [state |-> "idle", kind |-> "none", amount |-> 0, blocks |-> 0,
              status |-> "none", credited |-> FALSE, approved |-> 0]
\* the block of the gateway's deployment transaction
DeployBlock == 1
\* no client constructed
NoClient == [init |-> "none"]
\* no get*LogsAsync call in progress
NoQuery == [state |-> "idle"]
\* the README's withdraw script has not been started
NoFlow == [kind |-> "none", amount |-> 0, step |-> "none", signed |-> "none",
           outcome |-> "none"]
\* the listenToTokenWithdrawal call of the script
FlowWait == "w1"

Init ==
    /\ receipt = NoReceipt
    /\ ethNonce = 0
    /\ lastEthTx = NoTx
    /\ inflight = {}
    /\ mGateway = NoGateway
    /\ creating = {}
    /\ listeners = [g \in Callers |-> {}]
    /\ wState = [w \in WaitIds |-> "idle"]
    /\ wArgs = [w \in WaitIds |-> NoArgs]
    /\ wGateway = [w \in WaitIds |-> NoGateway]
    /\ timer = [w \in WaitIds |-> [state |-> "unset", left |-> 0]]
    /\ promise = [w \in WaitIds |-> [state |-> "pending", value |-> <<>>, error |-> ""]]
    /\ observed = [w \in WaitIds |-> <<>>]
    /\ wd = IdleWithdraw
    /\ rec = IdleRecovery
    /\ resolvedBy = [w \in WaitIds |-> NoEvent]
    /\ removals = [w \in WaitIds |-> 0]
    /\ elapsed = [w \in WaitIds |-> 0]
    /\ recHist = NoEntry
    /\ dead = {}
    /\ process = 1
    /\ flow = NoFlow
    /\ deposit = NoDeposit
    /\ ledger = [logs |-> {}, head |-> DeployBlock]
    /\ logQuery = NoQuery
    /\ currentNetwork = [eth |-> "mainnet", loom |-> "plasma"]
    /\ metaMask = Me
    /\ ethereum = NoClient
    /\ loom = NoClient

(***************************************************************************)
(* Promise (new Promise((resolve, reject) => ...), Ethereum.ts:729):       *)
(* resolve and reject act only on a pending promise.                       *)
(***************************************************************************)
\* (a promise that could be settled again)
CanSettleAgain(p) == TRUE

CanSettle(p) == p.state = "pending"

Outcome(state, value, error) == [state |-> state, value |-> value, error |-> error]

Settle(p, outcome) == IF CanSettle(p) THEN outcome ELSE p

\* what the caller awaiting the promise gets to see
Observe(obs, p, outcome) == IF CanSettle(p) THEN Append(obs, outcome) ELSE obs

(***************************************************************************)
(* Loom.getTransferGatewayAsync (Ethereum.ts:544-551)                      *)
(***************************************************************************)
GatewayCached == mGateway # NoGateway

\* TransferGateway.createAsync(this.client, this.address), line 547, started
\* by caller c when no gateway is cached: the new instance is bound to the
\* client the Loom object holds at that moment, the live one
CreateAsync(c) == IF GatewayCached THEN dead ELSE dead \ {c}

(***************************************************************************)
(* Loom.listenToTokenWithdrawal (Ethereum.ts:728-743)                      *)
(***************************************************************************)
\* (a timer armed with another delay)
ArmedTimerShort == [state |-> "armed", left |-> TIMEOUT_MS \div 2]

\* setTimeout(() => reject(...), 120000)
ArmedTimer == [state |-> "armed", left |-> TIMEOUT_MS]

\* the body of the .then(gateway => ...) callback, lines 730-742, run for
\* wait w with gateway instance g: arm the timer, register the listener
Subscribe(w, g) ==
    /\ timer' = [timer EXCEPT ![w] = ArmedTimer]
    /\ listeners' = [listeners EXCEPT ![g] = @ \cup {w}]
    /\ wGateway' = [wGateway EXCEPT ![w] = g]
    /\ wState' = [wState EXCEPT ![w] = "listening"]

\* the call itself: with a cached gateway the callback runs in the same
\* turn of the event loop (a microtask), otherwise createAsync is started
ListenToTokenWithdrawal(w, asset, owner) ==
    /\ wState[w] = "idle"
    /\ w = "w2" => wState["w1"] # "idle"        \* the calls are named in call order
    /\ wArgs' = [wArgs EXCEPT ![w] = [asset |-> createEthereumAddress(asset),
                                      owner |-> createEthereumAddress(owner)]]
    /\ IF GatewayCached
       THEN /\ Subscribe(w, mGateway)
            /\ UNCHANGED creating
       ELSE /\ wState' = [wState EXCEPT ![w] = "creating"]
            /\ creating' = creating \cup {w}
            /\ UNCHANGED << timer, listeners, wGateway >>
    /\ dead' = CreateAsync(w)
    /\ UNCHANGED << hostVars, chainVars, inflight, mGateway, promise, observed, wd, recVars,
                    resolvedBy, removals, elapsed >>

\* TransferGateway.createAsync resolves for wait w: lines 547-550, then the
\* callback of listenToTokenWithdrawal
ListenGatewayCreated(w) ==
    /\ wState[w] = "creating"
    /\ w \in creating
    /\ creating' = creating \ {w}
    /\ mGateway' = w
    /\ Subscribe(w, w)
    /\ UNCHANGED << dead, hostVars, flow, chainVars, inflight, wArgs, promise, observed, wd, recVars,
                    resolvedBy, removals, elapsed >>

\* TransferGateway.createAsync rejects (transport fault): the .then of line
\* 730 has no rejection handler, so neither resolve nor reject is called
ListenGatewayFailed(w) ==
    /\ wState[w] = "creating"
    /\ w \in creating
    /\ creating' = creating \ {w}
    /\ wState' = [wState EXCEPT ![w] = "failed"]
    /\ UNCHANGED << dead, hostVars, flow, chainVars, inflight, mGateway, listeners, wArgs, wGateway, timer,
                    promise, observed, wd, recVars, resolvedBy, removals, elapsed >>

\* (a listener that compares the asset only)
MatchesAssetOnly(w, event) == AddressEquals(event.tokenContract, wArgs[w].asset)

\* the condition of line 736
Matches(w, event) ==
    /\ AddressEquals(event.tokenContract, wArgs[w].asset)
    /\ AddressEquals(event.tokenOwner, wArgs[w].owner)

\* (a listener that leaves the timer running)
KeepTimeout(t) == t

\* clearTimeout(timer): cancels a timer that has not fired yet
ClearTimeout(t) == IF t.state = "armed" THEN [state |-> "cleared", left |-> t.left] ELSE t

\* the waits whose listener is called with the event and passes line 736
Matched(event) ==
    { w \in WaitIds : wGateway[w] # NoGateway /\ w \in listeners[wGateway[w]]
                      /\ wGateway[w] \notin dead
                      /\ Matches(w, event) }

\* gateway.removeAllListeners(EVENT_TOKEN_WITHDRAWAL), line 738, called by
\* the listeners in `by`: every listener on their gateway instances goes
RemoveAllListeners(by) ==
    [g \in Callers |-> IF \E w \in by : wGateway[w] = g THEN {} ELSE listeners[g]]

\* A withdrawal-signed event reaches the client: every gateway instance
\* emits it to the listeners registered at that moment (lines 735-741).
DeliverEvent(event) ==
    /\ event \in inflight
    /\ inflight' = inflight \ {event}
    /\ LET hit == Matched(event) IN
       /\ timer' = [w \in WaitIds |-> IF w \in hit THEN ClearTimeout(timer[w]) ELSE timer[w]]
       /\ listeners' = RemoveAllListeners(hit)
       /\ promise' = [w \in WaitIds |->
              IF w \in hit
              THEN Settle(promise[w], Outcome("resolved", bytesToHexAddr(event.sig), ""))
              ELSE promise[w]]
       /\ observed' = [w \in WaitIds |->
              IF w \in hit
              THEN Observe(observed[w], promise[w],
                           Outcome("resolved", bytesToHexAddr(event.sig), ""))
              ELSE observed[w]]
       /\ resolvedBy' = [w \in WaitIds |->
              IF w \in hit /\ CanSettle(promise[w]) THEN event ELSE resolvedBy[w]]
       /\ removals' = [w \in WaitIds |->
              IF wGateway[w] # NoGateway /\ w \in listeners[wGateway[w]]
                 /\ w \notin listeners'[wGateway[w]]
              THEN removals[w] + 1 ELSE removals[w]]
    /\ UNCHANGED << dead, hostVars, flow, chainVars, mGateway, creating, wState, wArgs, wGateway, wd, recVars,
                    elapsed >>

\* the timer callback of line 732
TimerFires(w) ==
    /\ timer[w].state = "armed"
    /\ timer[w].left = 0
    /\ timer' = [timer EXCEPT ![w] = [state |-> "fired", left |-> 0]]
    /\ promise' = [promise EXCEPT ![w] = Settle(@, Outcome("rejected", <<>>, TimeoutError))]
    /\ observed' = [observed EXCEPT ![w] = Observe(@, promise[w], Outcome("rejected", <<>>, TimeoutError))]
    /\ UNCHANGED << dead, hostVars, flow, chainVars, inflight, clientVars, wState, wArgs, wGateway, wd, recVars,
                    resolvedBy, removals, elapsed >>

\* Wall-clock time passes by d ms.  A timer fires when its delay has run
\* out, so time does not pass beyond the deadline of an armed timer.
ArmedWaits == { w \in WaitIds : timer[w].state = "armed" }

Tick(d) ==
    /\ d > 0
    /\ ArmedWaits # {}
    /\ \A w \in ArmedWaits : d <= timer[w].left
    /\ timer' = [w \in WaitIds |->
           IF w \in ArmedWaits THEN [timer[w] EXCEPT !.left = @ - d] ELSE timer[w]]
    /\ elapsed' = [w \in WaitIds |->
           IF w \in ArmedWaits THEN elapsed[w] + d ELSE elapsed[w]]
    /\ UNCHANGED << dead, hostVars, flow, chainVars, inflight, clientVars, wState, wArgs, wGateway, promise,
                    observed, wd, recVars, resolvedBy, removals >>

(***************************************************************************)
(* The Loom client's connection ends: the handler registered by            *)
(* initWithPrivateKey / initWithEthereum (Ethereum.ts:789, 806) runs the   *)
(* initialisation again, which replaces mClient and mProvider and leaves   *)
(* mGateway as it is.  Every gateway instance made so far, and every       *)
(* createAsync in flight, holds the client that ended.                     *)
(***************************************************************************)
GatewayInstances ==
    (creating \cup {mGateway} \cup {wGateway[w] : w \in WaitIds}) \ {NoGateway}

ClientEnd ==
    /\ dead' = dead \cup GatewayInstances
    /\ UNCHANGED << chainVars, inflight, clientVars, waitVars, wd, recVars, hostVars, flow >>

(***************************************************************************)
(* toBigNumber (src/src/utils/big-number-utils.ts:7-13) applied to the     *)
(* decimal text of a number: BN.toString() writes the digits,              *)
(* bigNumberify reads them back.                                           *)
(***************************************************************************)
Digits == <<"0", "1", "2", "3", "4", "5", "6", "7", "8", "9">>

RECURSIVE toDecimalString(_)
toDecimalString(n) ==
    IF n < 10 THEN << Digits[n + 1] >>
    ELSE toDecimalString(n \div 10) \o << Digits[(n % 10) + 1] >>

DigitValue(c) == CHOOSE d \in 0..9 : Digits[d + 1] = c

RECURSIVE bigNumberify(_)
bigNumberify(text) ==
    IF Len(text) = 1 THEN DigitValue(text[1])
    ELSE 10 * bigNumberify(SubSeq(text, 1, Len(text) - 1)) + DigitValue(text[Len(text)])

\* (a comparison that accepts every nonce)
NonceEqAny(ethereumNonce, withdrawalNonce) == TRUE

\* (a comparison that also accepts a nonce below the receipt's)
NonceAtMost(ethereumNonce, withdrawalNonce) ==
    ethereumNonce <= bigNumberify(toDecimalString(withdrawalNonce))

\* toBigNumber(ethereumNonce).eq(toBigNumber(loomNonce)), lines 755-756
NonceEq(ethereumNonce, withdrawalNonce) ==
    ethereumNonce = bigNumberify(toDecimalString(withdrawalNonce))

(***************************************************************************)
(* The gateway contracts and the attestor (the environment of the clients) *)
(***************************************************************************)
Receipt(kind, contract, amount, nonce) ==
    [tokenKind |-> kind, tokenContract |-> contract, tokenAmount |-> amount,
     withdrawalNonce |-> nonce, oracleSignature |-> NoSig]

\* The contract address the Loom gateway records in a receipt.  An ERC20
\* withdrawal names the asset (Ethereum.ts:712).  An ETH withdrawal passes
\* the address of the Ethereum gateway (line 677) while the client listens
\* for the zero address (line 725, README.md:110): the source does not
\* settle which of the two the gateway records.
ReceiptContracts(kind) ==
    IF kind = "ETH" THEN {ZERO_ADDRESS, ETH_GATEWAY_ADDRESS} ELSE {ERC20_ADDRESS}

SignedEvent(owner, asset, sig) ==
    [tokenContract |-> createEthereumAddress(asset),
     tokenOwner |-> createEthereumAddress(owner), sig |-> sig]

\* Loom gateway, withdrawETHAsync / withdrawERC20Async transaction of the
\* owner: it is accepted when the owner has no unresolved receipt
LoomGatewayAccepts == receipt = NoReceipt

\* an accepted withdrawal records the receipt, a refused one changes nothing
LoomGatewayWithdraw(kind, contract, amount) ==
    IF LoomGatewayAccepts THEN Receipt(kind, contract, amount, ethNonce) ELSE receipt

\* Ethereum gateway, withdrawETH / withdrawERC20: the signature must be the
\* attestor's over (owner, nonces(owner), asset, amount)
EthSignatureValid(asset, amount, signature) ==
    signature = bytesToHexAddr(OracleSig(Me, ethNonce, asset, amount))

\* "It increments every time you execute a withdrawal" (Ethereum.ts:324);
\* seq is the number of the transaction among those submitted
EthGatewayWithdraw(asset, amount, signature, seq) ==
    /\ EthSignatureValid(asset, amount, signature) => ethNonce < MaxNonce
    /\ ethNonce' = IF EthSignatureValid(asset, amount, signature)
                   THEN ethNonce + 1 ELSE ethNonce
    /\ lastEthTx' = [asset |-> asset, amount |-> amount, signature |-> signature,
                     status |-> IF EthSignatureValid(asset, amount, signature)
                                THEN "ok" ELSE "reverted",
                     seq |-> seq]

(***************************************************************************)
(* Ethereum.withdrawETHAsync / withdrawERC20Async (Ethereum.ts:199-224)    *)
(***************************************************************************)
\* assetAddress.toLocalAddressString(): the local part of the address
toLocalAddressString(address) == address.local

\* (a call that always names the zero address as the asset)
GatewayCallWithoutAsset(assetAddress, amount, signature) ==
    [asset |-> ZERO_ADDRESS, amount |-> amount, signature |-> signature]

\* the arguments handed to the gateway contract: gateway.withdrawETH(amount,
\* signature) withdraws the native asset, gateway.withdrawERC20(amount,
\* signature, assetAddress.toLocalAddressString()) the asset named
GatewayCall(assetAddress, amount, signature) ==
    [asset |-> toLocalAddressString(assetAddress), amount |-> amount,
     signature |-> signature]

\* (a client that submits once more when the gateway reverts)
SubmitRetrying(seq, valid) == IF valid THEN seq + 1 ELSE seq + 2

\* `return gateway.withdrawETH(...)`, lines 204 and 223: one transaction is
\* submitted per call, whatever becomes of it
Submit(seq, valid) == seq + 1

\* one call of withdrawETHAsync (assetAddress the zero address) or of
\* withdrawERC20Async
EthereumWithdrawAsync(assetAddress, amount, signature) ==
    LET call == GatewayCall(assetAddress, amount, signature) IN
    /\ lastEthTx.seq < MaxEthTx
    /\ EthGatewayWithdraw(call.asset, call.amount, call.signature,
           Submit(lastEthTx.seq, EthSignatureValid(call.asset, call.amount, call.signature)))

\* tx.wait() of the returned transaction: it resolves when the transaction
\* succeeded and rejects when it reverted
TxOutcome(status) == IF status = "ok" THEN "finalized" ELSE "reverted"

\* gateway.on(EVENT_TOKEN_WITHDRAWAL, ...) subscribes the client to the
\* event (Ethereum.ts:735); the chain sends an event to subscribed clients
Subscribed == \E g \in Callers \ dead : listeners[g] # {}

Emit(event) ==
    IF Subscribed /\ Cardinality(inflight) < MaxInflight
    THEN inflight \cup {event}
    ELSE inflight

\* the attestor signs the owner's receipt and the Loom gateway emits the
\* withdrawal-signed event
AttestorSigns ==
    /\ receipt # NoReceipt
    /\ receipt.oracleSignature = NoSig
    /\ LET sig == OracleSig(Me, receipt.withdrawalNonce, AssetOfKind(receipt.tokenKind),
                            receipt.tokenAmount) IN
       /\ receipt' = [receipt EXCEPT !.oracleSignature = sig]
       /\ inflight' = Emit(SignedEvent(Me, receipt.tokenContract, sig))
    /\ flow' = IF flow.step \notin {"none", "tx1"} /\ flow.signed = "none"
               THEN [flow EXCEPT !.signed = timer[FlowWait].state]
               ELSE flow
    /\ UNCHANGED << dead, hostVars, ethNonce, lastEthTx, clientVars, waitVars, wd, recVars >>

\* the attestor signs a withdrawal of the other owner: its event goes out
\* on the same subscription
ForeignEvent(asset) ==
    /\ Subscribed
    /\ Cardinality(inflight) < MaxInflight
    /\ inflight' = inflight \cup {SignedEvent(Other, asset, OracleSig(Other, 0, asset, 1))}
    /\ UNCHANGED << dead, hostVars, flow, chainVars, clientVars, waitVars, wd, recVars >>

\* the attestor has seen the withdrawal on Ethereum: the receipt is resolved
OracleClears ==
    /\ receipt # NoReceipt
    /\ receipt.withdrawalNonce < ethNonce
    /\ receipt' = NoReceipt
    /\ UNCHANGED << dead, hostVars, flow, ethNonce, lastEthTx, inflight, clientVars, waitVars, wd, recVars >>

(***************************************************************************)
(* Loom.withdrawETHAsync / withdrawERC20Async (Ethereum.ts:657-718)        *)
(***************************************************************************)
LoomWithdrawAsync(kind, amount) ==
    /\ wd.state \in {"idle", "failed"}
    /\ IF GatewayCached
       THEN /\ wd' = [state |-> "handle", kind |-> kind, amount |-> amount]
            /\ UNCHANGED creating
       ELSE /\ wd' = [state |-> "creating", kind |-> kind, amount |-> amount]
            /\ creating' = creating \cup {"withdraw"}
    /\ dead' = CreateAsync("withdraw")
    /\ UNCHANGED << hostVars, chainVars, inflight, mGateway, listeners, waitVars, recVars >>

WithdrawGatewayCreated ==
    /\ wd.state = "creating"
    /\ "withdraw" \in creating
    /\ creating' = creating \ {"withdraw"}
    /\ mGateway' = "withdraw"
    /\ wd' = [wd EXCEPT !.state = "handle"]
    /\ UNCHANGED << dead, hostVars, flow, chainVars, inflight, listeners, waitVars, recVars >>

\* README.md:108 and 123, `await tx1.wait()` in the withdraw
\* script: the script goes on to listen when the withdrawal was accepted
\* and ends with the error otherwise
FlowAfterWait(accepted) ==
    IF flow.step = "tx1"
    THEN [flow EXCEPT !.step = IF accepted THEN "listen" ELSE "done",
                      !.outcome = IF accepted THEN "none" ELSE "threw"]
    ELSE flow

WithdrawGatewayFailed ==
    /\ wd.state = "creating"
    /\ "withdraw" \in creating
    /\ creating' = creating \ {"withdraw"}
    /\ wd' = IdleWithdraw
    /\ flow' = FlowAfterWait(FALSE)
    /\ UNCHANGED << dead, hostVars, chainVars, inflight, mGateway, listeners, waitVars, recVars >>

\* (a handle whose wait() reports success whatever the gateway answers)
WaitOutcomeSwallowed(accepted) == "idle"

\* wait(), lines 673-682 and 711-715: the promise of the gateway call with
\* .then(() => ({ byzantium: true })) and no rejection handler, so that a
\* refused transaction rejects wait(); after a wait() that resolved the call
\* is over ("idle"), after one that rejected the caller holds the error
WaitOutcome(accepted) == IF accepted THEN "idle" ELSE "failed"

\* wait() on the handle: the transaction is sent to the Loom gateway and
\* its outcome is what the caller of wait() gets
HandleWait ==
    /\ wd.state = "handle"
    /\ \E contract \in ReceiptContracts(wd.kind) :
           receipt' = LoomGatewayWithdraw(wd.kind, contract, wd.amount)
    /\ wd' = [IdleWithdraw EXCEPT !.state = WaitOutcome(LoomGatewayAccepts)]
    /\ flow' = FlowAfterWait(WaitOutcome(LoomGatewayAccepts) = "idle")
    /\ UNCHANGED << dead, hostVars, ethNonce, lastEthTx, inflight, clientVars, waitVars, recVars >>

(***************************************************************************)
(* Recovery: Ethereum.getWithdrawalNonceAsync (Ethereum.ts:326-329), then  *)
(* Loom.getPendingETHWithdrawalReceipt / getPendingERC20WithdrawalReceipt  *)
(* (lines 751-779), then Ethereum.withdrawETHAsync / withdrawERC20Async    *)
(* with the receipt (README.md:132-173)                                    *)
(***************************************************************************)
\* (a lookup that returns whatever receipt of the kind it finds)
PendingReceiptOfKind(kind, ethereumNonce, r) ==
    IF r # NoReceipt /\ r.tokenKind = kind THEN r ELSE NoReceipt

\* (a lookup that does not look at the kind of the receipt)
PendingReceiptAnyKind(kind, ethereumNonce, r) ==
    IF r # NoReceipt /\ NonceEq(ethereumNonce, r.withdrawalNonce) THEN r ELSE NoReceipt

\* (a lookup that answers only a client holding a wait that timed out)
PendingReceiptIfTimedOut(kind, ethereumNonce, r) ==
    IF /\ promise[FlowWait].state = "rejected"
       /\ r # NoReceipt
       /\ r.tokenKind = kind
       /\ NonceEq(ethereumNonce, r.withdrawalNonce)
    THEN r
    ELSE NoReceipt

\* (a lookup that returns the receipt without the attestor's signature)
PendingReceiptUnsigned(kind, ethereumNonce, r) ==
    IF r # NoReceipt /\ r.tokenKind = kind /\ NonceEq(ethereumNonce, r.withdrawalNonce)
    THEN [r EXCEPT !.oracleSignature = NoSig]
    ELSE NoReceipt

\* lines 754-760 and 772-778
PendingReceipt(kind, ethereumNonce, r) ==
    IF r # NoReceipt /\ r.tokenKind = kind /\ NonceEq(ethereumNonce, r.withdrawalNonce)
    THEN r
    ELSE NoReceipt

\* two receipts record the same withdrawal: they differ at most in the
\* signature the attestor adds
SameWithdrawal(r1, r2) ==
    [r1 EXCEPT !.oracleSignature = NoSig] = [r2 EXCEPT !.oracleSignature = NoSig]

\* the entry kept of a completed call of getPending*WithdrawalReceipt: its
\* arguments, the chain state it read, its result, whether the result has
\* been finalized on Ethereum since, whether the call repeated the call
\* before it (same arguments, same chain state), the process that made it,
\* whether that client held a wait that had timed out, and, when the call
\* before it had the same arguments and read the same receipt, who made
\* that call and what it returned
RecEntry(kind, nonce, result) ==
    [kind |-> kind, nonce |-> nonce, receipt |-> receipt, ethNonce |-> ethNonce,
     result |-> result, finalized |-> FALSE,
     again |-> /\ recHist.kind = kind
               /\ recHist.nonce = nonce
               /\ SameWithdrawal(recHist.receipt, receipt)
               /\ recHist.ethNonce = ethNonce,
     process |-> process,
     timedOut |-> promise[FlowWait].state = "rejected",
     previous |-> IF recHist.kind = kind /\ recHist.nonce = nonce /\ recHist.receipt = receipt
                  THEN [process |-> recHist.process, timedOut |-> recHist.timedOut,
                        result |-> recHist.result]
                  ELSE NoPrevious]

GetWithdrawalNonceAsync ==
    /\ rec.state = "idle"
    /\ rec' = [IdleRecovery EXCEPT !.state = "nonce", !.nonce = ethNonce]
    /\ UNCHANGED << dead, hostVars, flow, chainVars, inflight, clientVars, waitVars, wd, recHist >>

\* a caller that supplies a nonce of its own
SupplyNonce(n) ==
    /\ rec.state = "idle"
    /\ rec' = [IdleRecovery EXCEPT !.state = "nonce", !.nonce = n]
    /\ UNCHANGED << dead, hostVars, flow, chainVars, inflight, clientVars, waitVars, wd, recHist >>

\* lines 753-760 (772-778), with the gateway at hand
ReadPendingReceipt(kind) ==
    /\ rec' = [rec EXCEPT !.state = "result", !.kind = kind,
                          !.result = PendingReceipt(kind, rec.nonce, receipt)]
    /\ recHist' = RecEntry(kind, rec.nonce, PendingReceipt(kind, rec.nonce, receipt))

GetPendingWithdrawalReceipt(kind) ==
    /\ rec.state = "nonce"
    /\ IF GatewayCached
       THEN /\ ReadPendingReceipt(kind)
            /\ UNCHANGED creating
       ELSE /\ rec' = [rec EXCEPT !.state = "creating", !.kind = kind]
            /\ creating' = creating \cup {"recovery"}
            /\ UNCHANGED recHist
    /\ dead' = CreateAsync("recovery")
    /\ UNCHANGED << hostVars, flow, chainVars, inflight, mGateway, listeners, waitVars, wd >>

RecoveryGatewayCreated ==
    /\ rec.state = "creating"
    /\ "recovery" \in creating
    /\ creating' = creating \ {"recovery"}
    /\ mGateway' = "recovery"
    /\ ReadPendingReceipt(rec.kind)
    /\ UNCHANGED << dead, hostVars, flow, chainVars, inflight, listeners, waitVars, wd >>

RecoveryGatewayFailed ==
    /\ rec.state = "creating"
    /\ "recovery" \in creating
    /\ creating' = creating \ {"recovery"}
    /\ rec' = IdleRecovery
    /\ UNCHANGED << dead, hostVars, flow, chainVars, inflight, mGateway, listeners, waitVars, wd, recHist >>

\* README.md:146-150 and 166-170: the receipt's amount and signature go to
\* Ethereum.withdrawETHAsync / withdrawERC20Async (Ethereum.ts:199-224).
\* With a null receipt `receipt.tokenAmount` throws and nothing is sent.
RecoveryFinalize ==
    /\ rec.state = "result"
    /\ IF rec.result = NoReceipt
       THEN /\ UNCHANGED << ethNonce, lastEthTx >>
            /\ rec' = [IdleRecovery EXCEPT !.state = "threw"]
       ELSE /\ EthereumWithdrawAsync(createEthereumAddress(AssetOfKind(rec.kind)),
                   bigNumberify(toDecimalString(rec.result.tokenAmount)),
                   bytesToHexAddr(rec.result.oracleSignature))
            /\ rec' = [IdleRecovery EXCEPT !.state = TxOutcome(lastEthTx'.status)]
    /\ recHist' = [recHist EXCEPT !.finalized = @ \/ (rec.result # NoReceipt /\ lastEthTx'.status = "ok")]
    /\ UNCHANGED << dead, hostVars, flow, receipt, inflight, clientVars, waitVars, wd >>

\* the caller is done with the outcome: of the lookup, when it sends
\* nothing, or of the finalization
RecoveryReturn ==
    /\ rec.state \in {"result", "threw", "finalized", "reverted"}
    /\ rec' = IdleRecovery
    /\ UNCHANGED << dead, hostVars, flow, chainVars, inflight, clientVars, waitVars, wd, recHist >>

(***************************************************************************)
(* The withdraw script of README.md:99-129: Loom.withdraw*Async, wait(),   *)
(* listenToTokenWithdrawal, Ethereum.withdraw*Async, wait()                *)
(***************************************************************************)
\* lines 107 and 122: const tx1 = await loom.withdrawETHAsync(amount, ..) /
\* withdrawERC20Async(asset, amount)
FlowWithdraw(kind, amount) ==
    /\ flow = NoFlow
    /\ LoomWithdrawAsync(kind, amount)
    /\ flow' = [NoFlow EXCEPT !.kind = kind, !.amount = amount, !.step = "tx1"]

\* lines 110 and 125, after tx1.wait() has returned:
\* loom.listenToTokenWithdrawal(ZERO_ADDRESS or the asset, myEthereumAddress)
FlowListen ==
    /\ flow.step = "listen"
    /\ ListenToTokenWithdrawal(FlowWait, AssetOfKind(flow.kind), Me)
    /\ flow' = [flow EXCEPT !.step = "await"]

\* lines 112-113 and 127-128, the awaited signature has arrived:
\* ethereum.withdrawETHAsync(amount, signature) /
\* withdrawERC20Async(asset, amount, signature), then tx2.wait()
FlowFinalize ==
    /\ flow.step = "await"
    /\ promise[FlowWait].state = "resolved"
    /\ EthereumWithdrawAsync(createEthereumAddress(AssetOfKind(flow.kind)), flow.amount,
                             promise[FlowWait].value)
    /\ flow' = [flow EXCEPT !.step = "done", !.outcome = TxOutcome(lastEthTx'.status)]
    /\ recHist' = [recHist EXCEPT !.finalized =
                       @ \/ (recHist.result # NoReceipt /\ lastEthTx'.status = "ok")]
    /\ UNCHANGED << dead, hostVars, receipt, inflight, clientVars, waitVars, wd, rec >>

\* the awaited promise was rejected: the script ends with the timeout error
FlowTimeout ==
    /\ flow.step = "await"
    /\ promise[FlowWait].state = "rejected"
    /\ flow' = [flow EXCEPT !.step = "done", !.outcome = "timeout"]
    /\ UNCHANGED << dead, hostVars, chainVars, inflight, clientVars, waitVars, wd, recVars >>

(***************************************************************************)
(* Another client process is started: new Loom(...) (Ethereum.ts:456-467)  *)
(* begins with the fields of a fresh object, no gateway cached, no         *)
(* listener, no call in progress; the chains keep their state.             *)
(***************************************************************************)
NewProcess ==
    /\ process < MaxProcesses
    /\ process' = process + 1
    /\ inflight' = {}
    /\ mGateway' = NoGateway
    /\ creating' = {}
    /\ listeners' = [g \in Callers |-> {}]
    /\ wState' = [w \in WaitIds |-> "idle"]
    /\ wArgs' = [w \in WaitIds |-> NoArgs]
    /\ wGateway' = [w \in WaitIds |-> NoGateway]
    /\ timer' = [w \in WaitIds |-> [state |-> "unset", left |-> 0]]
    /\ promise' = [w \in WaitIds |-> [state |-> "pending", value |-> <<>>, error |-> ""]]
    /\ observed' = [w \in WaitIds |-> <<>>]
    /\ resolvedBy' = [w \in WaitIds |-> NoEvent]
    /\ removals' = [w \in WaitIds |-> 0]
    /\ elapsed' = [w \in WaitIds |-> 0]
    /\ wd' = IdleWithdraw
    /\ rec' = IdleRecovery
    /\ dead' = {}
    /\ flow' = NoFlow
    /\ UNCHANGED << chainVars, recHist, ethVars >>

(***************************************************************************)
(* Deposits: Ethereum.approveERC20Async, depositETHAsync and               *)
(* depositERC20Async (Ethereum.ts:153-188), used as in README.md:72-95     *)
(***************************************************************************)
\* the README's approveTx: approveERC20Async(asset, gateway.address, amount)
\* and approveTx.wait()
ApproveERC20Async(amount) ==
    /\ deposit.state \in {"idle", "confirmed", "reverted"}
    /\ deposit' = [deposit EXCEPT !.approved = amount]
    /\ UNCHANGED << loomVars, ledger, logQuery, idVars >>

\* depositETHAsync is signer.sendTransaction({ to: gateway.address, value })
\* and depositERC20Async is gateway.depositERC20(amount, asset): the promise
\* resolves with the handle once the transaction has been submitted
DepositAsync(kind, amount) ==
    /\ deposit.state \in {"idle", "confirmed", "reverted"}
    /\ deposit' = [state |-> "sent", kind |-> kind, amount |-> amount, blocks |-> 0,
                   status |-> "pending", credited |-> FALSE,
                   approved |-> deposit.approved]
    /\ UNCHANGED << loomVars, ledger, logQuery, idVars >>

\* (a wait() that resolves when the attestor has credited the deposit)
WaitResolvedWhenCredited(blocks, credited) == credited

\* tx.wait() of the handle resolves (or rejects, for a reverted transaction)
\* when the transaction has one confirmation
WaitResolved(blocks, credited) == blocks >= 1

\* what wait() gives its caller
DepositOutcome(status) == IF status = "ok" THEN "confirmed" ELSE "reverted"

\* await tx.wait() (README.md:80, 92)
DepositWait ==
    /\ deposit.state = "sent"
    /\ deposit' = [deposit EXCEPT !.state =
                      IF WaitResolved(deposit.blocks, deposit.credited)
                      THEN DepositOutcome(deposit.status) ELSE "waiting"]
    /\ UNCHANGED << loomVars, ledger, logQuery, idVars >>

\* the gateway contract executes the deposit in the block that includes it:
\* an ERC20 deposit needs the allowance
DepositExecutes(d) ==
    IF d.kind = "ETH" \/ d.approved >= d.amount THEN "ok" ELSE "reverted"

\* a block is mined on Ethereum; the first one includes the transaction
MineBlock ==
    /\ deposit.state \in {"sent", "waiting", "confirmed", "reverted"}
    /\ deposit.blocks < MaxBlocks
    /\ LET status == IF deposit.blocks = 0 THEN DepositExecutes(deposit) ELSE deposit.status
           approved == IF deposit.blocks = 0 /\ deposit.kind = "ERC20" /\ status = "ok"
                       THEN deposit.approved - deposit.amount ELSE deposit.approved
       IN deposit' = [deposit EXCEPT
              !.blocks = @ + 1,
              !.status = status,
              !.approved = approved,
              !.state = IF @ = "waiting" /\ WaitResolved(deposit.blocks + 1, deposit.credited)
                        THEN DepositOutcome(status) ELSE @]
    /\ UNCHANGED << loomVars, ledger, logQuery, idVars >>

\* the attestor credits the amount on Loom, "after 10 blocks of
\* confirmations" (Ethereum.ts:164), or never
AttestorCredits ==
    /\ deposit.status = "ok"
    /\ deposit.blocks >= CONFIRMATIONS
    /\ ~deposit.credited
    /\ deposit' = [deposit EXCEPT !.credited = TRUE]
    /\ UNCHANGED << loomVars, ledger, logQuery, idVars >>

(***************************************************************************)
(* Historical log queries: Ethereum.getETHReceivedLogsAsync,               *)
(* getERC20ReceivedLogsAsync, getETHWithdrawnLogsAsync,                    *)
(* getERC20WithdrawnLogsAsync (Ethereum.ts:232-355)                        *)
(***************************************************************************)
LogEvents == {"ETHReceived", "ERC20Received", "TokenWithdrawn"}

\* the contracts a log of the event can name
LogContracts(event) ==
    CASE event = "ETHReceived" -> {ZERO_ADDRESS}
      [] event = "ERC20Received" -> {ERC20_ADDRESS, OTHER_ERC20_ADDRESS}
      [] event = "TokenWithdrawn" -> {ZERO_ADDRESS, ERC20_ADDRESS}

\* a log of the gateway: party is `from` of a deposit, `owner` of a withdrawal
Log(event, party, contract, block) ==
    [event |-> event, party |-> party, contractAddress |-> contract, blockNumber |-> block]

\* the gateway logs an event, in the latest block or in a new one
EmitLog(event, party, contract) ==
    /\ logQuery.state = "idle"
    /\ Cardinality(ledger.logs) < MaxLogs
    /\ \E block \in {ledger.head, ledger.head + 1} :
           /\ block <= MaxBlockNo
           /\ Log(event, party, contract, block) \notin ledger.logs
           /\ ledger' = [logs |-> ledger.logs \cup {Log(event, party, contract, block)},
                         head |-> block]
    /\ UNCHANGED << loomVars, deposit, logQuery, idVars >>

\* an argument the caller leaves out, and one the caller gives
Unset == [set |-> FALSE, value |-> 0]
Given(n) == [set |-> TRUE, value |-> n]

\* `fromBlock: number = 0`, `toBlock: number = 0`: the parameter's value
DefaultParam(arg) == IF arg.set THEN arg.value ELSE 0

\* (a range that always starts at the deployment block)
FromBlockAlwaysDeployment(fromBlock) == DeployBlock

\* lines 234-237: if (fromBlock === 0) fromBlock = the block of the
\* gateway's deployment transaction
FromBlock(fromBlock) == IF fromBlock = 0 THEN DeployBlock ELSE fromBlock

\* lines 238-241: if (toBlock === 0) toBlock = provider.getBlockNumber()
ToBlock(toBlock) == IF toBlock = 0 THEN ledger.head ELSE toBlock

\* the filter handed to getLogs: topics [event.topic] for the deposits
\* (line 245), [event.topic, event.encodeTopics([this.address])] for the
\* withdrawals (line 344)
LogFilter(name) ==
    CASE name = "getETHReceivedLogsAsync" -> [event |-> "ETHReceived", owner |-> "any"]
      [] name = "getERC20ReceivedLogsAsync" -> [event |-> "ERC20Received", owner |-> "any"]
      [] OTHER -> [event |-> "TokenWithdrawn", owner |-> Me]

\* getLogs(provider, filter): the logs of the gateway with the filter's
\* topics in the block range
GetLogs(filter, fromBlock, toBlock) ==
    { log \in ledger.logs :
        /\ log.event = filter.event
        /\ filter.owner = "any" \/ log.party = filter.owner
        /\ fromBlock <= log.blockNumber
        /\ log.blockNumber <= toBlock }

\* the orders in which the node can return the logs
Orders(logs) ==
    { order \in [1..Cardinality(logs) -> logs] :
        \A i, j \in 1..Cardinality(logs) : i # j => order[i] # order[j] }

\* (a comparator for ascending block numbers)
CompareAscending(l1, l2) == l1.blockNumber - l2.blockNumber

\* (l1, l2) => (l2.blockNumber || 0) - (l1.blockNumber || 0), line 250
Compare(l1, l2) == l2.blockNumber - l1.blockNumber

\* Array.prototype.sort with the comparator: a stable sort
RECURSIVE Insert(_, _)
Insert(sorted, log) ==
    IF sorted = <<>> THEN <<log>>
    ELSE IF Compare(Head(sorted), log) <= 0
         THEN <<Head(sorted)>> \o Insert(Tail(sorted), log)
         ELSE <<log>> \o sorted

RECURSIVE Sort(_)
Sort(logs) ==
    IF logs = <<>> THEN <<>>
    ELSE Insert(Sort(SubSeq(logs, 1, Len(logs) - 1)), logs[Len(logs)])

\* .map(log => ({ log, ...event.decode(log.data) })), lines 251-254: the
\* fields of the event's data; the indexed owner of TokenWithdrawn is in
\* the topics, not in the data
Decode(log) ==
    [log |-> log,
     from |-> IF log.event = "TokenWithdrawn" THEN "none" ELSE log.party,
     contractAddress |-> log.contractAddress]

\* (a filter that looks at the asset only)
KeepsAssetOnly(name, asset, data) ==
    name = "getETHReceivedLogsAsync"
        \/ AddressEquals(createEthereumAddress(data.contractAddress), asset)

\* the .filter(...) of lines 255, 294-298 and 354
Keeps(name, asset, data) ==
    CASE name = "getETHReceivedLogsAsync" ->
             AddressEquals(createEthereumAddress(data.from), createEthereumAddress(Me))
      [] name = "getERC20ReceivedLogsAsync" ->
             /\ AddressEquals(createEthereumAddress(data.from), createEthereumAddress(Me))
             /\ AddressEquals(createEthereumAddress(data.contractAddress), asset)
      [] OTHER -> AddressEquals(createEthereumAddress(data.contractAddress), asset)

RECURSIVE MapFilter(_, _, _)
MapFilter(name, asset, logs) ==
    IF logs = <<>> THEN <<>>
    ELSE (IF Keeps(name, asset, Decode(Head(logs))) THEN <<Decode(Head(logs))>> ELSE <<>>)
             \o MapFilter(name, asset, Tail(logs))

LogQueries ==
    {"getETHReceivedLogsAsync", "getERC20ReceivedLogsAsync",
     "getETHWithdrawnLogsAsync", "getERC20WithdrawnLogsAsync"}

\* the asset of the query: getETHWithdrawnLogsAsync passes
\* Address.createEthereumAddress(ZERO_ADDRESS) (line 309)
QueryAssets(name) ==
    IF name \in {"getERC20ReceivedLogsAsync", "getERC20WithdrawnLogsAsync"}
    THEN {ERC20_ADDRESS} ELSE {ZERO_ADDRESS}

\* one call of a get*LogsAsync function, with the node's answer
GetLogsAsync(name, asset, fromArg, toArg) ==
    /\ logQuery.state = "idle"
    /\ LET fromBlock == FromBlock(DefaultParam(fromArg))
           toBlock == ToBlock(DefaultParam(toArg))
       IN \E returned \in Orders(GetLogs(LogFilter(name), fromBlock, toBlock)) :
              logQuery' = [state |-> "done", name |-> name,
                           asset |-> createEthereumAddress(asset),
                           fromBlock |-> fromArg, toBlock |-> toArg,
                           range |-> [fromBlock |-> fromBlock, toBlock |-> toBlock],
                           returned |-> returned,
                           result |-> MapFilter(name, createEthereumAddress(asset),
                                                Sort(returned))]
    /\ UNCHANGED << loomVars, deposit, ledger, idVars >>

\* the caller is done with the list
LogsReturn ==
    /\ logQuery.state = "done"
    /\ logQuery' = NoQuery
    /\ UNCHANGED << loomVars, deposit, ledger, idVars >>

(***************************************************************************)
(* Networks and client identity: EthereumNetwork, LoomNetwork, the         *)
(* constructors and the 'end' handlers of Ethereum and Loom                *)
(* (Ethereum.ts:54-88, 357-370, 433-467, 781-815), TransferGateway.at      *)
(***************************************************************************)
EthereumNetworks == {"mainnet", "rinkeby"}
LoomNetworks == {"plasma", "extdev"}

\* chainId of the networks
ChainIdOf(network) ==
    CASE network = "mainnet" -> "1"
      [] network = "rinkeby" -> "4"
      [] network = "plasma" -> "13654820909954"
      [] network = "extdev" -> "9545242630824"

\* networkName of the Loom networks
NetworkNameOf(network) ==
    IF network = "plasma" THEN "default" ELSE "extdev-plasma-us1"

\* private keys, and the hex address of the key's public key
PrivateKeys == {"keyA", "keyB"}
KeyAddress(key) == IF key = "keyA" THEN Me ELSE Other

\* Address.createLoomAddress: chainId is the networkName of the Loom
\* network that is current at the call
createLoomAddress(local) ==
    [chainId |-> NetworkNameOf(currentNetwork.loom), local |-> local]

\* EthereumNetwork.setCurrent(network)
SetCurrentEthereum(network) ==
    /\ network # currentNetwork.eth
    /\ currentNetwork' = [currentNetwork EXCEPT !.eth = network]
    /\ UNCHANGED << loomVars, deposit, ledger, logQuery, metaMask, ethereum, loom >>

\* LoomNetwork.setCurrent(network)
SetCurrentLoom(network) ==
    /\ network # currentNetwork.loom
    /\ currentNetwork' = [currentNetwork EXCEPT !.loom = network]
    /\ UNCHANGED << loomVars, deposit, ledger, logQuery, metaMask, ethereum, loom >>

\* the user selects another account in MetaMask
SelectAccount(address) ==
    /\ address # metaMask
    /\ metaMask' = address
    /\ UNCHANGED << loomVars, deposit, ledger, logQuery, currentNetwork, ethereum, loom >>

\* Ethereum.initWithPrivateKey: a provider for the network that is current
\* now, the address of the key
EthereumInitWithPrivateKey(built, privateKey) ==
    [init |-> "privateKey", key |-> privateKey,
     network |-> currentNetwork.eth,
     mAddress |-> createEthereumAddress(KeyAddress(privateKey)),
     built |-> built]

\* Ethereum.initWithMetaMask: the provider of MetaMask, the address that is
\* selected now
EthereumInitWithMetaMask(built) ==
    [init |-> "metaMask", key |-> "none",
     network |-> "metaMask",
     mAddress |-> createEthereumAddress(metaMask),
     built |-> built]

\* the constructor has not returned yet
NotBuilt == [address |-> NoAddress, network |-> "none"]

\* what the client had when its constructor returned
Built(client, network) ==
    [client EXCEPT !.built = [address |-> client.mAddress, network |-> network]]

\* new Ethereum(privateKey)
NewEthereum(privateKey) ==
    /\ ethereum.init = "none"
    /\ ethereum' = Built(EthereumInitWithPrivateKey(NotBuilt, privateKey), currentNetwork.eth)
    /\ UNCHANGED << loomVars, deposit, ledger, logQuery, currentNetwork, metaMask, loom >>

\* new Ethereum(metaMask)
NewEthereumWithMetaMask ==
    /\ ethereum.init = "none"
    /\ ethereum' = Built(EthereumInitWithMetaMask(NotBuilt), currentNetwork.eth)
    /\ UNCHANGED << loomVars, deposit, ledger, logQuery, currentNetwork, metaMask, loom >>

\* the 'end' handler of the Ethereum provider
EthereumEnd ==
    /\ ethereum.init # "none"
    /\ ethereum' = IF ethereum.init = "privateKey"
                   THEN EthereumInitWithPrivateKey(ethereum.built, ethereum.key)
                   ELSE EthereumInitWithMetaMask(ethereum.built)
    /\ UNCHANGED << loomVars, deposit, ledger, logQuery, currentNetwork, metaMask, loom >>

\* Loom.initWithPrivateKey: the address of the key, a client for the
\* network that is current now
LoomInitWithPrivateKey(built, privateKey) ==
    [init |-> "privateKey", key |-> privateKey,
     network |-> currentNetwork.loom,
     mAddress |-> createLoomAddress(KeyAddress(privateKey)),
     built |-> built]

\* Loom.initWithEthereum: the address of a dummy key generated now, a
\* client for the network that is current now
LoomInitWithEthereum(built, dummyPrivateKey) ==
    [init |-> "ethereum", key |-> dummyPrivateKey,
     network |-> currentNetwork.loom,
     mAddress |-> createLoomAddress(KeyAddress(dummyPrivateKey)),
     built |-> built]

\* new Loom(privateKey)
NewLoom(privateKey) ==
    /\ loom.init = "none"
    /\ loom' = Built(LoomInitWithPrivateKey(NotBuilt, privateKey), currentNetwork.loom)
    /\ UNCHANGED << loomVars, deposit, ledger, logQuery, currentNetwork, metaMask, ethereum >>

\* the explicit address of new Loom(ethereum, address), or none
NoExplicitAddress == NoAddress

\* new Loom(ethereum, address): generatePrivateKey() is random
NewLoomWithEthereum(address) ==
    /\ loom.init = "none"
    /\ ethereum.init # "none"
    /\ \E dummyPrivateKey \in PrivateKeys :
           LET client == LoomInitWithEthereum(NotBuilt, dummyPrivateKey)
           IN loom' = Built(IF address # NoExplicitAddress
                            THEN [client EXCEPT !.mAddress = address]
                            ELSE client,
                            currentNetwork.loom)
    /\ UNCHANGED << loomVars, deposit, ledger, logQuery, currentNetwork, metaMask, ethereum >>

\* the 'end' handler of the Loom client
LoomEnd ==
    /\ loom.init # "none"
    /\ \/ /\ loom.init = "privateKey"
          /\ loom' = LoomInitWithPrivateKey(loom.built, loom.key)
       \/ /\ loom.init = "ethereum"
          /\ \E dummyPrivateKey \in PrivateKeys :
                 loom' = LoomInitWithEthereum(loom.built, dummyPrivateKey)
    /\ UNCHANGED << loomVars, deposit, ledger, logQuery, currentNetwork, metaMask, ethereum >>

\* the clients are disposed of
DisposeClients ==
    /\ ethereum.init # "none"
    /\ loom.init # "none"
    /\ ethereum' = NoClient
    /\ loom' = NoClient
    /\ UNCHANGED << loomVars, deposit, ledger, logQuery, currentNetwork, metaMask >>

\* get network(): EthereumNetwork.current() / LoomNetwork.current()
Network(chain) == IF chain = "eth" THEN currentNetwork.eth ELSE currentNetwork.loom

\* the entry of networks/TransferGateway.json for the chainId
GatewayAddressOf(chainId) == [contract |-> "TransferGateway", chainId |-> chainId]

\* TransferGateway.at(chain): the address of
\* networks/TransferGateway.json[chain.network.chainId]
TransferGatewayAt(chain) == GatewayAddressOf(ChainIdOf(Network(chain)))

(***************************************************************************)
(* Specification                                                           *)
(***************************************************************************)
\* the attestor and the transport
AttestorNext ==
    \/ AttestorSigns
    \/ \E asset \in Assets : ForeignEvent(asset)
    \/ \E event \in inflight : DeliverEvent(event)

\* initiating a withdrawal on Loom
WithdrawNext ==
    \/ \E kind \in TokenKinds, amount \in 1..MaxAmount :
           LoomWithdrawAsync(kind, amount) /\ UNCHANGED flow
    \/ WithdrawGatewayCreated
    \/ WithdrawGatewayFailed
    \/ HandleWait

\* waiting for the withdrawal to be signed
ListenNext ==
    \/ \E w \in WaitIds, asset \in Assets, owner \in Owners :
           ListenToTokenWithdrawal(w, asset, owner) /\ UNCHANGED flow
    \/ \E w \in WaitIds : ListenGatewayCreated(w)
    \/ \E w \in WaitIds : ListenGatewayFailed(w)
    \/ \E w \in WaitIds : TimerFires(w)
    \/ \E d \in {TickMs} \cup {timer[w].left : w \in ArmedWaits} : Tick(d)

\* handling a pending withdrawal
RecoverNext ==
    \/ GetWithdrawalNonceAsync
    \/ \E n \in 0..MaxNonce : SupplyNonce(n)
    \/ \E kind \in TokenKinds : GetPendingWithdrawalReceipt(kind)
    \/ RecoveryGatewayCreated
    \/ RecoveryGatewayFailed
    \/ RecoveryFinalize
    \/ RecoveryReturn
    \/ OracleClears

\* the withdrawal up to the signature: initiate, wait for the event
Next == ListenNext \/ WithdrawNext \/ AttestorNext

Spec == Init /\ [][Next]_vars

\* the pending withdrawal: initiate, sign, recover and finalize
RecoveryStep == RecoverNext \/ WithdrawNext \/ AttestorSigns

RecoverySpec == Init /\ [][RecoveryStep]_vars

\* one wait, the withdrawal it waits for, and the connection of the client
ReconnectStep ==
    \/ \E asset \in Assets : ListenToTokenWithdrawal(FlowWait, asset, Me) /\ UNCHANGED flow
    \/ ListenGatewayCreated(FlowWait)
    \/ ListenGatewayFailed(FlowWait)
    \/ TimerFires(FlowWait)
    \/ \E d \in {TickMs} \cup {timer[w].left : w \in ArmedWaits} : Tick(d)
    \/ WithdrawNext
    \/ AttestorSigns
    \/ \E event \in inflight : DeliverEvent(event)
    \/ ClientEnd

ReconnectSpec == Init /\ [][ReconnectStep]_vars

\* A client process runs one script at a time, each a sequence of awaited
\* calls: the withdraw script (README.md:99-129) or the handling of a
\* pending withdrawal (README.md:132-173).
WithdrawScriptRunning == flow.step \notin {"none", "done"}
RecoveryScriptRunning == rec.state # "idle"

\* the scripts run by a client process, the attestor, and a later client
\* process
FlowStep ==
    \/ /\ ~RecoveryScriptRunning
       /\ \E kind \in TokenKinds, amount \in 1..MaxAmount : FlowWithdraw(kind, amount)
    \/ WithdrawGatewayCreated
    \/ WithdrawGatewayFailed
    \/ HandleWait
    \/ FlowListen
    \/ TimerFires(FlowWait)
    \/ \E d \in {TickMs} \cup {timer[w].left : w \in ArmedWaits} : Tick(d)
    \/ FlowFinalize
    \/ FlowTimeout
    \/ AttestorSigns
    \/ \E event \in inflight : DeliverEvent(event)
    \/ /\ ~WithdrawScriptRunning
       /\ \/ GetWithdrawalNonceAsync
          \/ \E kind \in TokenKinds : GetPendingWithdrawalReceipt(kind)
          \/ RecoveryGatewayCreated
          \/ RecoveryGatewayFailed
          \/ RecoveryFinalize
          \/ RecoveryReturn
    \/ OracleClears
    \/ NewProcess

FlowSpec == Init /\ [][FlowStep]_vars

\* deposits of the Ethereum client, the Ethereum chain and the attestor
DepositStep ==
    \/ \E amount \in 0..MaxAmount : ApproveERC20Async(amount)
    \/ \E kind \in TokenKinds, amount \in 1..MaxAmount : DepositAsync(kind, amount)
    \/ DepositWait
    \/ MineBlock
    \/ AttestorCredits

DepositSpec == Init /\ [][DepositStep]_vars

BlockArgs == {Unset} \cup {Given(n) : n \in 0..MaxBlockNo}

\* the gateway's logs and the historical log queries of the Ethereum client
LogsStep ==
    \/ \E event \in LogEvents, party \in Owners, contract \in Assets \cup {OTHER_ERC20_ADDRESS} :
           contract \in LogContracts(event) /\ EmitLog(event, party, contract)
    \/ \E name \in LogQueries, asset \in Assets, fromArg \in BlockArgs, toArg \in BlockArgs :
           asset \in QueryAssets(name) /\ GetLogsAsync(name, asset, fromArg, toArg)
    \/ LogsReturn

LogsSpec == Init /\ [][LogsStep]_vars

\* construction, reconnection and network selection of the two clients
ClientStep ==
    \/ \E network \in EthereumNetworks : SetCurrentEthereum(network)
    \/ \E network \in LoomNetworks : SetCurrentLoom(network)
    \/ \E address \in Owners : SelectAccount(address)
    \/ \E privateKey \in PrivateKeys : NewEthereum(privateKey)
    \/ NewEthereumWithMetaMask
    \/ EthereumEnd
    \/ \E privateKey \in PrivateKeys : NewLoom(privateKey)
    \/ \E address \in {NoExplicitAddress} \cup {createLoomAddress(a) : a \in Owners} :
           NewLoomWithEthereum(address)
    \/ LoomEnd
    \/ DisposeClients

ClientSpec == Init /\ [][ClientStep]_vars

(***************************************************************************)
(* Properties                                                              *)
(***************************************************************************)
Listening(w) == wGateway[w] # NoGateway /\ w \in listeners[wGateway[w]]

Ended(w) == promise[w].state # "pending"

\* the event is one the listener of w is meant to react to
IsFor(w, event) ==
    /\ event.tokenContract.chainId = wArgs[w].asset.chainId
    /\ event.tokenContract.local = wArgs[w].asset.local
    /\ event.tokenOwner.chainId = wArgs[w].owner.chainId
    /\ event.tokenOwner.local = wArgs[w].owner.local

\* C1: a wait resolves only with the signature of an event whose
\* tokenContract is the asset and whose tokenOwner is the owner the wait
\* was started with; everything the caller observes as a resolution is that
\* signature.
C1_ResolvesOnlyOnOwnEvent ==
    \A w \in WaitIds :
        /\ promise[w].state = "resolved" =>
               /\ resolvedBy[w] # NoEvent
               /\ IsFor(w, resolvedBy[w])
               /\ promise[w].value = bytesToHexAddr(resolvedBy[w].sig)
        /\ \A i \in 1..Len(observed[w]) :
               observed[w][i].state = "resolved" =>
                   /\ IsFor(w, resolvedBy[w])
                   /\ observed[w][i].value = bytesToHexAddr(resolvedBy[w].sig)

\* C1 witness: two waits for different owners shared a subscription; the
\* event of one owner was handed to both listeners, resolved the wait of
\* that owner and left the other wait pending.
C1_OtherOwnersEventIgnored ==
    \E w, v \in WaitIds :
        /\ w # v
        /\ wArgs[w].owner # wArgs[v].owner
        /\ wGateway[w] = wGateway[v]
        /\ promise[w].state = "resolved"
        /\ wState[v] = "listening" /\ removals[v] = 1
        /\ promise[v].state = "pending"

\* C2: the caller of a wait observes at most one outcome.
C2_AtMostOneOutcome ==
    \A w \in WaitIds : Len(observed[w]) <= 1

\* C2 witness: the deadline timer of a wait fired and afterwards a matching
\* event reached its listener (no other wait was started that could have
\* removed the listener), and the caller has observed one outcome.
C2_TimeoutThenMatch ==
    \E w \in WaitIds :
        /\ \A v \in WaitIds \ {w} : wState[v] = "idle"
        /\ timer[w].state = "fired"
        /\ removals[w] = 1
        /\ Len(observed[w]) = 1

\* C3 (as claimed): when a wait has ended, by a match or by the deadline,
\* its listener has been removed from the gateway, exactly once.
C3_ListenerRemovedOnEveryEnding ==
    \A w \in WaitIds :
        Ended(w) => (~Listening(w) /\ removals[w] = 1)

\* C4 (as claimed): of two waits for different (asset, owner) pairs on one
\* client, the one that is still pending after the other has ended still
\* has its own listener and its own timer.
C4_ConcurrentWaitsIndependent ==
    \A w, v \in WaitIds :
        ( /\ w # v
          /\ wArgs[w] # wArgs[v]
          /\ wState[w] = "listening" /\ wState[v] = "listening"
          /\ Ended(w)
          /\ ~Ended(v) )
        => (Listening(v) /\ timer[v].state = "armed")

\* C5: getPendingETHWithdrawalReceipt(n) and
\* getPendingERC20WithdrawalReceipt(n) never return a receipt whose
\* withdrawalNonce differs from n, so no such receipt reaches finalization.
C5_ReceiptNonceEqualsArgument ==
    (rec.state = "result" /\ rec.result # NoReceipt)
        => rec.result.withdrawalNonce = rec.nonce

\* C5 witness: the owner's receipt is of the kind asked for, its nonce
\* differs from the argument, and the call returned no receipt.
C5_MismatchNotReturned ==
    /\ rec.state = "result"
    /\ recHist.receipt # NoReceipt
    /\ recHist.receipt.tokenKind = rec.kind
    /\ recHist.receipt.withdrawalNonce # rec.nonce
    /\ rec.result = NoReceipt

\* C6 (as claimed): when the owner's receipt is of the expected kind and
\* its nonce differs from the nonce supplied, the result of the call is an
\* outcome of its own, one the caller can tell from "no pending receipt"
\* (null).
C6_NonceMismatchToldApart ==
    ( /\ rec.state = "result"
      /\ recHist.receipt # NoReceipt
      /\ recHist.receipt.tokenKind = rec.kind
      /\ recHist.receipt.withdrawalNonce # rec.nonce )
    => rec.result # NoReceipt

\* C7 (as claimed): a receipt the recovery path yields carries the oracle
\* signature, and no withdrawal is submitted to Ethereum with an absent
\* signature.
C7_OnlySignedReceiptFinalized ==
    /\ (rec.state = "result" /\ rec.result # NoReceipt)
           => rec.result.oracleSignature # NoSig
    /\ lastEthTx # NoTx => lastEthTx.signature # bytesToHexAddr(NoSig)

\* the steps of a recovery call: reading the nonce, asking for the receipt
RecoveryCallStep == rec.state \in {"idle", "nonce", "creating"} /\ rec' # rec

\* the step in which a call of getPending*WithdrawalReceipt returns
RecoveryReadStep == rec.state \in {"nonce", "creating"} /\ rec'.state = "result"

\* the call repeats the previous call: same arguments, and the chain holds
\* the same nonce and the same withdrawal (the attestor may have signed it)
RepeatsPrevious ==
    /\ recHist.kind = rec'.kind
    /\ recHist.nonce = rec'.nonce
    /\ SameWithdrawal(recHist.receipt, receipt)
    /\ recHist.ethNonce = ethNonce

\* the receipt the previous call returned has been finalized since, no new
\* withdrawal was initiated, and the call uses the nonce Ethereum now has
FollowsFinalization ==
    /\ recHist.kind = rec'.kind
    /\ recHist.result # NoReceipt
    /\ recHist.finalized
    /\ receipt \in {recHist.receipt, NoReceipt}
    /\ rec'.nonce = ethNonce

RecoveryIdempotent ==
    /\ RecoveryCallStep => UNCHANGED << receipt, ethNonce, lastEthTx >>
    /\ RecoveryReadStep =>
           /\ RepeatsPrevious =>
                  /\ SameWithdrawal(rec'.result, recHist.result)
                  /\ receipt = recHist.receipt => rec'.result = recHist.result
           /\ FollowsFinalization => rec'.result = NoReceipt

\* C8 (as claimed): a recovery call repeated in a row yields the same
\* outcome, finds no pending receipt after a finalization, and the calls
\* change no on-chain state and no client state.
C8_RecoveryChangesNoState ==
    [][ /\ RecoveryIdempotent
        /\ RecoveryCallStep => UNCHANGED << mGateway, listeners >> ]_vars

\* C8 (amended): as above, except that a call that finds no cached gateway
\* contract creates one and stores it in mGateway; the listeners and the
\* chain are left alone.
C8_RecoveryIdempotentUpToGatewayCache ==
    [][ /\ RecoveryIdempotent
        /\ RecoveryCallStep =>
               /\ UNCHANGED listeners
               /\ mGateway' # mGateway => (rec.state = "creating" /\ mGateway' = "recovery") ]_vars

\* C8 witness: a call that repeated the call before it returned a receipt.
C8_RepeatedCallReturnedReceipt ==
    /\ rec.state = "result"
    /\ recHist.again
    /\ recHist.result # NoReceipt
    /\ rec.result = recHist.result
    /\ rec.result = receipt

\* C9: a matching event handed to the listener of a wait while its timer
\* is armed resolves the wait with the signature of that event and cancels
\* the timer; a cancelled timer stays cancelled and a resolved wait stays
\* resolved, so no timeout rejection follows.
C9_MatchBeforeDeadlineResolves ==
    [][ \A w \in WaitIds :
          /\ \A event \in inflight :
                ( /\ event \notin inflight'
                  /\ Listening(w)
                  /\ IsFor(w, event)
                  /\ timer[w].state = "armed" )
                => /\ promise'[w] = Outcome("resolved", bytesToHexAddr(event.sig), "")
                   /\ observed'[w] = << promise'[w] >>
                   /\ timer'[w].state = "cleared"
          /\ timer[w].state = "cleared" =>
                /\ timer'[w].state = "cleared"
                /\ promise[w].state = "resolved"
                /\ promise'[w] = promise[w]
                /\ observed'[w] = observed[w] ]_vars

\* C9 witness: a wait that was resolved by its event some time after it
\* was armed, with the timer cancelled before the deadline.
C9_ResolvedBeforeDeadline ==
    \E w \in WaitIds :
        /\ promise[w].state = "resolved"
        /\ timer[w].state = "cleared"
        /\ elapsed[w] > 0
        /\ observed[w] = << promise[w] >>

C13_GatewayFaultRejectsWait ==
    \A w \in WaitIds : wState[w] = "failed" => promise[w].state = "rejected"

\* C14 (as claimed): a wait in flight is subscribed on the connection the
\* client holds now: its listener sits on a gateway instance whose client
\* has not ended, so that a matching event emitted after a reconnect
\* reaches it.
C14_WaitResubscribedAfterReconnect ==
    \A w \in WaitIds :
        (wState[w] = "listening" /\ promise[w].state = "pending" /\ timer[w].state = "armed")
        => (Listening(w) /\ wGateway[w] \notin dead)

\* the call of getPending*WithdrawalReceipt that has returned found a
\* receipt of the kind it asks for on the chain
ReadReceiptOfKind ==
    /\ rec.state = "result"
    /\ recHist.receipt # NoReceipt
    /\ recHist.receipt.tokenKind = rec.kind

\* C15 (as claimed): with N the nonce of the owner's receipt, a receipt of
\* the expected kind is accepted whenever the nonce the call is given is
\* less than N.
C15_AcceptedWhenNonceBelow ==
    (ReadReceiptOfKind /\ rec.nonce < recHist.receipt.withdrawalNonce)
    => rec.result = recHist.receipt

\* C15 (amended): a receipt of the expected kind is accepted exactly when
\* the nonce the call is given equals N; otherwise the call returns null.
C15_AcceptedIffNonceEqual ==
    ReadReceiptOfKind =>
        /\ (rec.result = recHist.receipt) <=> (rec.nonce = recHist.receipt.withdrawalNonce)
        /\ rec.result \in {recHist.receipt, NoReceipt}

\* C15 witness: a call with a nonce below the nonce of the receipt of the
\* expected kind returned null.
C15_LowerNonceNotAccepted ==
    /\ ReadReceiptOfKind
    /\ rec.nonce < recHist.receipt.withdrawalNonce
    /\ rec.result = NoReceipt

\* C17 (as claimed): a receipt returned by getPendingETHWithdrawalReceipt
\* has tokenKind ETH and the zero address as its tokenContract; one
\* returned by getPendingERC20WithdrawalReceipt has tokenKind ERC20 and a
\* tokenContract other than the zero address.
C17_ReceiptContractMatchesKind ==
    (rec.state = "result" /\ rec.result # NoReceipt) =>
        /\ rec.result.tokenKind = rec.kind
        /\ rec.kind = "ETH" => rec.result.tokenContract = ZERO_ADDRESS
        /\ rec.kind = "ERC20" => rec.result.tokenContract # ZERO_ADDRESS

\* C18: a call of Ethereum.withdrawETHAsync / withdrawERC20Async submits
\* one transaction and no more; a transaction reaches the Ethereum gateway
\* only in such a call, made by the caller; and the caller of the call
\* gets the outcome of that transaction, the revert as a failure.
C18_OneTransactionPerCall ==
    [][ /\ lastEthTx'.seq \in {lastEthTx.seq, lastEthTx.seq + 1}
        /\ lastEthTx' # lastEthTx =>
               /\ lastEthTx'.seq = lastEthTx.seq + 1
               /\ \/ rec.state = "result" /\ rec'.state = TxOutcome(lastEthTx'.status)
                  \/ flow.outcome = "none" /\ flow'.outcome = TxOutcome(lastEthTx'.status)
        /\ rec.state = "reverted" => lastEthTx' = lastEthTx ]_vars

\* C18 witness: the finalization submitted by a call reverted, the caller
\* holds the failure, and one transaction has been submitted.
C18_RevertSurfaced ==
    /\ rec.state = "reverted"
    /\ lastEthTx.status = "reverted"
    /\ lastEthTx.seq = 1

\* C20: wait() on a withdraw handle while the owner has an unresolved
\* receipt fails towards its caller and leaves the receipt and the
\* withdrawal nonce as they were; a receipt that exists is never replaced
\* by the receipt of another withdrawal, so the owner has at most one.
C20_SecondWithdrawalRefused ==
    [][ /\ (wd.state = "handle" /\ wd'.state # "handle" /\ receipt # NoReceipt) =>
               /\ wd'.state = "failed"
               /\ receipt' = receipt
               /\ ethNonce' = ethNonce
        /\ (wd.state = "handle" /\ wd'.state # "handle" /\ receipt = NoReceipt) =>
               /\ wd'.state = "idle"
               /\ receipt' # NoReceipt
        /\ (receipt # NoReceipt /\ receipt' # NoReceipt) => SameWithdrawal(receipt, receipt') ]_vars

\* C20 witness: a wait() failed while the owner's earlier receipt, signed
\* by now, is still there.
C20_RefusedWhilePending ==
    /\ wd.state = "failed"
    /\ receipt # NoReceipt
    /\ receipt.oracleSignature # NoSig

\* C12: in the withdraw script, when the attestor signs the withdrawal
\* after the initiating transaction was confirmed and before the deadline
\* of the wait, the wait does not end in the timeout and the script goes
\* on to the finalization.
C12_SignedInWindowFinalizes ==
    flow.signed \in {"unset", "armed"} =>
        /\ timer[FlowWait].state # "fired"
        /\ promise[FlowWait].state # "rejected"
        /\ flow.outcome # "timeout"

\* C19: the finalization the withdraw script submits carries the signature
\* of the matching event that resolved its wait, in the form the wait
\* returned it, the amount the withdrawal was initiated with and the asset
\* of the withdrawal; Ethereum.withdrawETHAsync / withdrawERC20Async hand
\* what they are given to the gateway unchanged, in the script and in the
\* handling of a pending withdrawal.
C19_FinalizationCarriesSignatureAndAmount ==
    [][ /\ (flow.step = "await" /\ flow'.step = "done" /\ flow'.outcome # "timeout") =>
               /\ IsFor(FlowWait, resolvedBy[FlowWait])
               /\ resolvedBy[FlowWait].sig = receipt.oracleSignature
               /\ lastEthTx'.signature = bytesToHexAddr(resolvedBy[FlowWait].sig)
               /\ lastEthTx'.amount = flow.amount
               /\ lastEthTx'.amount = receipt.tokenAmount
               /\ lastEthTx'.asset = AssetOfKind(flow.kind)
        /\ (rec.state = "result" /\ rec'.state \in {"finalized", "reverted"}) =>
               /\ lastEthTx'.signature = bytesToHexAddr(rec.result.oracleSignature)
               /\ lastEthTx'.amount = rec.result.tokenAmount
               /\ lastEthTx'.asset = AssetOfKind(rec.kind) ]_vars

\* C19 witness: the script has finalized an ERC20 withdrawal with the
\* signature its wait returned.
C19_ScriptFinalizedERC20 ==
    /\ flow.outcome = "finalized"
    /\ flow.kind = "ERC20"
    /\ lastEthTx.status = "ok"
    /\ lastEthTx.asset = ERC20_ADDRESS
    /\ lastEthTx.signature = promise[FlowWait].value
    /\ rec.state = "idle"

\* the script's wait for an ERC20 withdrawal timed out and the attestor
\* signed the receipt after that
TimedOutThenSigned ==
    /\ flow.outcome = "timeout"
    /\ flow.kind = "ERC20"
    /\ flow.signed = "fired"

\* a call of getPendingERC20WithdrawalReceipt, with the nonce read by
\* getWithdrawalNonceAsync, has read the signed receipt of a withdrawal that
\* Ethereum has not executed yet
RecoveredAfterSigning ==
    /\ rec.state = "result"
    /\ rec.kind = "ERC20"
    /\ recHist.receipt # NoReceipt
    /\ recHist.receipt.oracleSignature # NoSig
    /\ recHist.receipt.withdrawalNonce = recHist.ethNonce

\* C11: after the wait of an ERC20 withdrawal has timed out and the attestor
\* has signed the receipt later, the recovery (getWithdrawalNonceAsync, then
\* getPendingERC20WithdrawalReceipt) returns the signed receipt with the
\* amount the withdrawal was initiated with, and the finalization made with
\* the receipt's amount and signature succeeds.
C11_RecoveryAfterTimeoutFinalizes ==
    [][ (TimedOutThenSigned /\ RecoveredAfterSigning) =>
            /\ rec.result = recHist.receipt
            /\ rec.result.oracleSignature # NoSig
            /\ rec.result.tokenAmount = flow.amount
            /\ rec'.state \in {"threw", "finalized", "reverted"} =>
                   /\ rec'.state = "finalized"
                   /\ lastEthTx'.status = "ok"
                   /\ lastEthTx'.amount = flow.amount
                   /\ lastEthTx'.signature = bytesToHexAddr(recHist.receipt.oracleSignature)
                   /\ ethNonce' = ethNonce + 1 ]_vars

\* C11 witness: the wait timed out, the attestor signed afterwards, and the
\* recovery has finalized the withdrawal with the recovered receipt.
C11_RecoveredAndFinalized ==
    /\ TimedOutThenSigned
    /\ rec.state = "finalized"
    /\ promise[FlowWait].state = "rejected"
    /\ recHist.result # NoReceipt
    /\ recHist.result.oracleSignature # NoSig
    /\ recHist.finalized
    /\ lastEthTx.status = "ok"
    /\ lastEthTx.amount = flow.amount

C28_OneGatewayInstance ==
    /\ \A w \in WaitIds : wGateway[w] # NoGateway => wGateway[w] = mGateway
    /\ Cardinality({ g \in Callers : listeners[g] # {} }) <= 1

\* C30: after the client has reconnected, an operation called from then on
\* that takes the gateway from the client (a wait that subscribes, a
\* withdrawal that gets its handle, a lookup of the pending receipt) gets a
\* gateway instance bound to the current client, never one bound to the
\* client that ended.
C30_OperationsUseCurrentClient ==
    [][ /\ \A w \in WaitIds :
               (wState[w] = "idle" /\ wState'[w] = "listening") => wGateway'[w] \notin dead'
        /\ (wd.state \in {"idle", "failed"} /\ wd'.state = "handle") => mGateway' \notin dead'
        /\ (rec.state = "nonce" /\ rec'.state = "result") => mGateway' \notin dead' ]_vars

\* the kind the other lookup compares with
OtherKind(kind) == IF kind = "ETH" THEN "ERC20" ELSE "ETH"

\* C29: on one on-chain state and for one nonce n, at most one of
\* getPendingETHWithdrawalReceipt(n) and getPendingERC20WithdrawalReceipt(n)
\* returns a receipt; without a receipt both return null; with a receipt of
\* nonce n exactly the one of the receipt's kind returns it.  The same for
\* the lookup just made and the lookup of the other kind.
C29_AtMostOneKindReturnsReceipt ==
    /\ \A n \in 0..MaxNonce :
           LET eth == PendingReceipt("ETH", n, receipt)
               erc20 == PendingReceipt("ERC20", n, receipt)
           IN /\ eth = NoReceipt \/ erc20 = NoReceipt
              /\ receipt = NoReceipt => (eth = NoReceipt /\ erc20 = NoReceipt)
              /\ (receipt # NoReceipt /\ receipt.withdrawalNonce = n) =>
                     /\ (eth = receipt) # (erc20 = receipt)
                     /\ (eth = receipt) <=> (receipt.tokenKind = "ETH")
    /\ (rec.state = "result" /\ rec.result # NoReceipt) =>
           PendingReceipt(OtherKind(rec.kind), rec.nonce, recHist.receipt) = NoReceipt

\* C29 witness: the lookup for ETH has answered null on an ERC20 receipt
\* with the nonce asked for, which the lookup for ERC20 returns.
C29_OtherKindReturnsNull ==
    /\ rec.state = "result"
    /\ rec.kind = "ETH"
    /\ rec.result = NoReceipt
    /\ receipt = recHist.receipt
    /\ receipt # NoReceipt
    /\ receipt.tokenKind = "ERC20"
    /\ receipt.withdrawalNonce = rec.nonce
    /\ PendingReceipt("ERC20", rec.nonce, receipt) = receipt

\* a withdrawal transaction has reached the Loom gateway: it holds a
\* receipt, of this withdrawal or of an earlier one that had this one refused
LoomTxSubmitted == receipt # NoReceipt

\* C25: the handle returned by Loom.withdrawETHAsync / withdrawERC20Async
\* has submitted its transaction by the time it is returned, before and
\* whether or not wait() is called on it.
C25_SubmittedWhenHandleReturned ==
    wd.state = "handle" => LoomTxSubmitted

\* C21: depositETHAsync / depositERC20Async have returned the handle when
\* the transfer is submitted, and wait() on the handle is over as soon as
\* the transaction has a confirmation: a wait() is pending only while the
\* transaction has none, whether or not the attestor has credited Loom.
C21_DepositCompletesWithoutCredit ==
    /\ deposit.state = "waiting" => deposit.blocks = 0
    /\ deposit.state \in {"confirmed", "reverted"} => deposit.blocks >= 1

\* C21 witness: wait() has returned for a deposit the attestor has not
\* credited although the confirmations for it are there.
C21_ConfirmedAndNeverCredited ==
    /\ deposit.state = "confirmed"
    /\ deposit.status = "ok"
    /\ ~deposit.credited
    /\ deposit.blocks >= CONFIRMATIONS

\* the event belongs to the caller of the query: its party is the client
\* and, for the queries of an asset, its contract is the asset
BelongsToCaller(name, asset, log) ==
    /\ log.event = LogFilter(name).event
    /\ log.party = Me
    /\ name # "getETHReceivedLogsAsync" => log.contractAddress = asset.local

\* the ledger log is in the block range of the query
InQueriedRange(log) ==
    /\ logQuery.range.fromBlock <= log.blockNumber
    /\ log.blockNumber <= logQuery.range.toBlock

\* C22: every event a historical log query returns belongs to the caller:
\* the sender of an ETHReceived is the client, the sender of an
\* ERC20Received is the client and its contract the asset, the owner of an
\* ETHWithdrawn or ERC20Withdrawn is the client and its contract the
\* requested asset (the zero address for ETH); no event of another party or
\* asset is in the result.
C22_ResultBelongsToCaller ==
    logQuery.state = "done" =>
        \A i \in 1..Len(logQuery.result) :
            BelongsToCaller(logQuery.name, logQuery.asset, logQuery.result[i].log)

\* a query that returned an event while the node had an event of the other
\* party of the same kind in the range
C22_OtherPartyLeftOut ==
    /\ logQuery.state = "done"
    /\ logQuery.result # <<>>
    /\ \E log \in ledger.logs :
           /\ log.event = LogFilter(logQuery.name).event
           /\ InQueriedRange(log)
           /\ log.party = Other

\* C23: the list of a query is ordered by non-increasing block number,
\* whatever the order in which the node returns the logs, and contains
\* every log of the queried range that passes the caller and asset filter.
C23_DescendingAndComplete ==
    logQuery.state = "done" =>
        /\ \A i \in 1..(Len(logQuery.result) - 1) :
               logQuery.result[i].log.blockNumber >= logQuery.result[i + 1].log.blockNumber
        /\ \A log \in ledger.logs :
               (InQueriedRange(log) /\ BelongsToCaller(logQuery.name, logQuery.asset, log))
                   => \E i \in 1..Len(logQuery.result) : logQuery.result[i].log = log

\* the node returned two logs of the caller oldest first
C23_ReturnedOldestFirst ==
    /\ logQuery.state = "done"
    /\ Len(logQuery.result) = 2
    /\ Len(logQuery.returned) = 2
    /\ logQuery.returned[1].blockNumber < logQuery.returned[2].blockNumber

\* C24 as stated: an unset fromBlock starts the range at the block of the
\* gateway's deployment transaction, an unset toBlock ends it at the chain
\* head, and a fromBlock or toBlock the caller sets is used exactly.
C24_RangeUsesCallersValue ==
    logQuery.state = "done" =>
        /\ logQuery.range.fromBlock =
               (IF logQuery.fromBlock.set THEN logQuery.fromBlock.value ELSE DeployBlock)
        /\ logQuery.range.toBlock =
               (IF logQuery.toBlock.set THEN logQuery.toBlock.value ELSE ledger.head)

\* C24, amended: an unset fromBlock starts the range at the block of the
\* gateway's deployment transaction, an unset toBlock ends it at the chain
\* head, and a fromBlock or toBlock other than 0 that the caller sets is
\* used exactly; a 0 the caller sets counts as unset.
C24_RangeDefaults ==
    logQuery.state = "done" =>
        /\ logQuery.range.fromBlock =
               (IF logQuery.fromBlock.set /\ logQuery.fromBlock.value # 0
                THEN logQuery.fromBlock.value ELSE DeployBlock)
        /\ logQuery.range.toBlock =
               (IF logQuery.toBlock.set /\ logQuery.toBlock.value # 0
                THEN logQuery.toBlock.value ELSE ledger.head)

\* a query with an unset toBlock and a fromBlock set above the deployment
\* block, on a chain whose head has moved on
C24_FromSetToUnset ==
    /\ logQuery.state = "done"
    /\ logQuery.fromBlock.set
    /\ logQuery.fromBlock.value > DeployBlock
    /\ ~logQuery.toBlock.set
    /\ ledger.head > DeployBlock
    /\ logQuery.range = [fromBlock |-> logQuery.fromBlock.value, toBlock |-> ledger.head]

\* C26: the address of a chain client never changes after construction,
\* for the Ethereum client and for a Loom client built from a private key
\* or from an Ethereum client, with or without an explicit address, across
\* any number of 'end' events.
C26_AddressFixedAtConstruction ==
    /\ ethereum.init # "none" => ethereum.mAddress = ethereum.built.address
    /\ loom.init # "none" => loom.mAddress = loom.built.address

\* C27: after any sequence of EthereumNetwork.setCurrent and
\* LoomNetwork.setCurrent calls, the `network` of a client, the gateway
\* address TransferGateway.at picks for it and the endpoint of its provider
\* all refer to the network that was current when it was constructed.
C27_NetworkFixedAtConstruction ==
    /\ ethereum.init # "none" =>
           /\ Network("eth") = ethereum.built.network
           /\ TransferGatewayAt("eth") = GatewayAddressOf(ChainIdOf(ethereum.built.network))
           /\ ethereum.init = "privateKey" => ethereum.network = ethereum.built.network
    /\ loom.init # "none" =>
           /\ Network("loom") = loom.built.network
           /\ TransferGatewayAt("loom") = GatewayAddressOf(ChainIdOf(loom.built.network))
           /\ loom.network = loom.built.network

====
